---- MODULE Spec2Model ----
(***************************************************************************)
(* A model of BART.py: the practice loop (run_practice), the main loop of  *)
(* bart() with its pump/bank/timeout/quit handlers, the per-trial          *)
(* explosion threshold, the block/overall accumulators, and the rows       *)
(* appended to trials.csv and blocks.csv (Spec); the same session with     *)
(* csv writes that may fail (SpecFaulty); sample_explosion_threshold in    *)
(* two processes side by side (SpecThreshold); csv_append on one file      *)
(* (SpecCsv).                                                              *)
(*                                                                         *)
(* Money is held in euro cents (REWARD = 0.5 EUR = 50): every amount the   *)
(* program computes is a multiple of 0.5, exact in binary floating point,  *)
(* and the "%.2f" text of such an amount is its cent value.                *)
(***************************************************************************)
EXTENDS Integers, Sequences, FiniteSets, TLC

\* ---------------------------------------------------------------- bounds

\* The block length.  The program uses 20 (summaries at 20 and 40 balloons,
\* REPETITIONS = 20, 3 x 20 = 60 trials, start = total - 19); the model runs
\* the same loop with blocks of Block balloons: summaries at Block and
\* 2 * Block balloons, REPETITIONS = Block, 3 x Block trials.
Block == 2

\* Thresholds explored: E is drawn from 1 .. Min(maxPumps, MaxThreshold).
MaxThreshold == 2

\* Trial orders explored: the fullRandom order of the main trials is one of
\* Shuffles orders (see TrialOrders).  The colour of a trial decides only its
\* maxPumps and two columns of its row.
Shuffles == 1

\* The salts of Python's str hash explored: 0 .. MaxSalt.
MaxSalt == 2

\* Trial indices for which a threshold is derived on its own: 1 .. MaxTrialIdx.
MaxTrialIdx == 2

\* Draws from the module-level random generator followed: 0 .. MaxDraws.
MaxDraws == 2

\* csv_append on its own: at most MaxCsvRows data rows in the file, each one
\* of RowValues possible rows.
MaxCsvRows == 4
RowValues == 3

\* random.random() is drawn from the grid {0, 1/Grain, .., (Grain-1)/Grain}.
Grain == 2

\* ------------------------------------------------------------- constants

CF_MASTER_SEED == 910273
\* the argument of random.seed in create_trials
OrderSeed == 52472
COLOR_LIST == <<"red", "green", "blue">>
MAX_PUMPS == <<8, 32, 12>>
REPETITIONS == Block
REWARD == 50

KEY_PUMP == "space"
KEY_NEXT == "return"
KEY_QUIT == "escape"
\* event.waitKeys returns None when maxWait passes without a key
NoKey == "None"

\* the participant ids a session may be given in the dialog
SubjectIds == {"7"}

NColors == Len(COLOR_LIST)
\* number of main trials: len(trialList) * nReps
NTrials == NColors * REPETITIONS
\* the totals at which a block summary is shown: (20, 40) in the program
BlockMarks == {Block, 2 * Block}

Min(a, b) == IF a <= b THEN a ELSE b
Max(a, b) == IF a >= b THEN a ELSE b

ZeroStats ==
    [total_balloons |-> 0, unexploded |-> 0, exploded |-> 0,
     total_pumps_unexploded |-> 0, earned |-> 0, potential |-> 0]

\* two accumulators added field by field
AddStats(a, b) == [f \in DOMAIN a |-> a[f] + b[f]]

NoRow == [trial_number |-> 0]
NoCue == "none"

VARIABLES
    pc,              \* where the program is: "practice" and "main" (at
                     \* waitKeys), "practice_end" and "save" (the while loop
                     \* left), "next" (the loop body done), "premain" (the
                     \* prompt), "summary" (a block mark reached),
                     \* "shown" (block summary on the screen), "done"
                     \* (final summary shown), "quit", "crashed"
    subject_id,      \* str(info['id'])
    idx,             \* the for loop's trial number (practice or main)
    trials,          \* the main trials the for loop has still to take from
                     \* the TrialHandler, as indices into COLOR_LIST
    trial,           \* index into COLOR_LIST/MAX_PUMPS of the current trial
    key,             \* what the last waitKeys returned
    tempBank, nPumps, pop, continuePumping,
    earned_this, potential_this,
    E,               \* this trial's explosion threshold (0 in practice)
    last_safe,       \* E - 1
    cue,             \* the sound played in this iteration: "pop", "collect"
    permBank,        \* bart()'s permBank
    practiceBank,    \* run_practice()'s permBank
    block, overall,  \* the two accumulators
    nTrialRows,      \* data rows appended to trials.csv by this session
    trialRow,        \* the one among them with trial_number = idx, if written
    blockScopes,     \* the scope column of the rows appended to blocks.csv
    blockRow,        \* the last of those rows, if appended in this iteration
    emitted,         \* the block summaries shown so far, summed field by field
    missedInBlock,   \* missed_this summed over the trial rows written since
                     \* the block accumulator was last reset
    missedInAll,     \* missed_this summed over all the trial rows written
    hashSalt,        \* per process: the salt of Python's str hash
    globalRandom,    \* per process: the state of the module-level random
    derived,         \* per process: the last threshold derivation
    csvFile          \* one csv file: whether it exists, and its rows

\* the state of a session
sessionVars == <<pc, subject_id, idx, trials, trial, key, tempBank, nPumps, pop,
          continuePumping, earned_this, potential_this, E, last_safe, cue,
          permBank,
          practiceBank, block, overall, nTrialRows, trialRow, blockScopes,
          blockRow, emitted, missedInBlock, missedInAll>>

\* the state of the parts of the program that are examined on their own
thresholdVars == <<hashSalt, globalRandom, derived>>
sideVars == <<thresholdVars, csvFile>>

vars == <<sessionVars, sideVars>>

trialVars == <<tempBank, nPumps, pop, continuePumping, earned_this,
               potential_this, E, last_safe, cue>>
mainVars == <<permBank, block, overall>>
fileVars == <<nTrialRows, trialRow, blockScopes, blockRow, emitted,
              missedInBlock, missedInAll>>

\* ------------------------------------------------------------ operators

\* the values of rng.randint(0, max_pumps)
ThresholdFromZero(max_pumps) == 0 .. Min(max_pumps, MaxThreshold)

\* sample_explosion_threshold: rng.randint(1, max_pumps) of a generator
\* seeded from hash("<id>-<idx>"); the values it can return.
ThresholdRange(max_pumps) == 1 .. Min(max_pumps, MaxThreshold)

\* missed with the operands of the subtraction exchanged
MissedSwapped(stats) == Max(0, stats.earned - stats.potential)

\* show_summary's missed = max(0.0, potential - earned)
Missed(stats) == Max(0, stats.potential - stats.earned)

\* the row show_summary appends to blocks.csv
BlockRow(participant_id, scope, stats) ==
    [participant_id |-> participant_id, scope |-> scope,
     total_balloons |-> stats.total_balloons,
     unexploded |-> stats.unexploded, exploded |-> stats.exploded,
     total_pumps_unexploded |-> stats.total_pumps_unexploded,
     earned |-> stats.earned, potential |-> stats.potential,
     missed |-> Missed(stats)]

\* show_summary(title, stats, participant_id, scope): the panel is shown and,
\* if participant_id and scope are both non-empty, a row is appended.
ShowSummary(stats, scope) ==
    IF subject_id # ""
       THEN /\ blockScopes' = Append(blockScopes, scope)
            /\ blockRow' = BlockRow(subject_id, scope, stats)
       ELSE UNCHANGED <<blockScopes, blockRow>>

\* f"block_{start}_{end}" and "final_60"
BlockScope(start, end) == <<"block", start, end>>
FinalScope == <<"final", NTrials>>

\* the trial list built from all colours but the last
TrialOrdersShort ==
    { [n \in 1 .. NTrials |-> ((n - 1 + k) % (NColors - 1)) + 1] :
         k \in 0 .. Shuffles - 1 }

\* the colours in turn: red, green, blue, red, ...
Cycle(n) == ((n - 1) % NColors) + 1

\* create_trials: the trial list (each colour REPETITIONS times) in one of
\* the orders fullRandom may give it.  The orders explored are the colour
\* cycle with its first trial exchanged with a later one.
TrialOrders ==
    { [n \in 1 .. NTrials |->
          IF n = 1 THEN Cycle(1 + k)
          ELSE IF n = 1 + k THEN Cycle(1)
          ELSE Cycle(n)] : k \in 0 .. Min(Shuffles, NTrials) - 1 }

\* the bank branch with the line <acc>['earned'] += earned_this left out
RecordBankedUnearned(stats, pumps, earned, potential) ==
    [stats EXCEPT !.total_balloons = @ + 1,
                  !.unexploded = @ + 1,
                  !.total_pumps_unexploded = @ + pumps,
                  !.potential = @ + potential]

\* the accumulator update of the bank branch
RecordBanked(stats, pumps, earned, potential) ==
    [stats EXCEPT !.total_balloons = @ + 1,
                  !.unexploded = @ + 1,
                  !.total_pumps_unexploded = @ + pumps,
                  !.earned = @ + earned,
                  !.potential = @ + potential]

\* mutant of RecordExploded: the balloon is not counted in total_balloons
RecordExplodedUncounted(stats, potential) ==
    [stats EXCEPT !.exploded = @ + 1,
                  !.potential = @ + potential]

\* the accumulator update of the explosion branch
RecordExploded(stats, potential) ==
    [stats EXCEPT !.total_balloons = @ + 1,
                  !.exploded = @ + 1,
                  !.potential = @ + potential]

\* mutant of LastSafe: the threshold itself is taken as the last safe pump
LastSafeIsThreshold(e) == e

\* last_safe = E - 1
LastSafe(e) == e - 1

\* mutant of NewTotal: the bank is overwritten, not added to
NewTotalOverwrites(perm, earned) == earned

\* newTotal = permBank + earned_this
NewTotal(perm, earned) == perm + earned

\* the top of one iteration of the main for loop: the handler yields the
\* next trial, the locals are reset and the threshold is drawn.
StartMainTrial(n, list) ==
    /\ trial' = Head(list)
    /\ trials' = Tail(list)
    /\ idx' = n
    /\ tempBank' = 0
    /\ nPumps' = 0
    /\ pop' = FALSE
    /\ continuePumping' = TRUE
    /\ earned_this' = 0
    /\ potential_this' = 0
    /\ \E e \in ThresholdRange(MAX_PUMPS[Head(list)]) :
          /\ E' = e
          /\ last_safe' = LastSafe(e)
    /\ cue' = NoCue
    /\ pc' = "main"

\* the top of one iteration of the practice for loop
StartPracticeTrial(n) ==
    /\ idx' = n
    /\ trial' = n
    /\ tempBank' = 0
    /\ nPumps' = 0
    /\ pop' = FALSE
    /\ continuePumping' = TRUE
    /\ cue' = NoCue
    /\ pc' = "practice"

\* ----------------------------------------------------------------- Init

SessionInit ==
    /\ pc = "practice"
    /\ subject_id \in SubjectIds
    /\ idx = 1
    /\ trial = 1
    /\ trials = <<>>
    /\ key = NoKey
    /\ tempBank = 0
    /\ nPumps = 0
    /\ pop = FALSE
    /\ continuePumping = TRUE
    /\ earned_this = 0
    /\ potential_this = 0
    /\ E = 0
    /\ last_safe = 0
    /\ cue = NoCue
    /\ permBank = 0
    /\ practiceBank = 0
    /\ block = ZeroStats
    /\ overall = ZeroStats
    /\ nTrialRows = 0
    /\ trialRow = NoRow
    /\ blockScopes = <<>>
    /\ blockRow = NoRow
    /\ emitted = ZeroStats
    /\ missedInBlock = 0
    /\ missedInAll = 0

\* two runs of the program (two processes), side by side
Sessions == {1, 2}

\* no threshold derived yet
NoCall == [max_pumps |-> 0, trial_idx |-> 0, E |-> 0]

\* the module-level generator of a process that has just started: seeded by
\* the operating system (seed 0 here), nothing drawn
FreshRandom == [seed |-> 0, drawn |-> 0]

\* a csv file that does not exist
AbsentFile == [exists |-> FALSE, rows |-> <<>>]

\* in a session the parts examined on their own stay as they start
ThresholdIdle ==
    /\ hashSalt = [s \in Sessions |-> 0]
    /\ globalRandom = [s \in Sessions |-> FreshRandom]
    /\ derived = [s \in Sessions |-> NoCall]

SideIdle == ThresholdIdle /\ csvFile = AbsentFile

Init == SessionInit /\ SideIdle

\* ------------------------------------------------------------- practice

PracticeTimeout ==
    /\ pc = "practice"
    /\ key' = NoKey
    /\ continuePumping' = FALSE
    /\ pc' = "practice_end"
    /\ UNCHANGED <<subject_id, idx, trials, trial, tempBank, nPumps, pop,
                   earned_this, potential_this, E, last_safe, cue,
                   practiceBank>>
    /\ UNCHANGED <<mainVars, fileVars>>
    /\ UNCHANGED sideVars

\* return permBank: run_practice ends and bart() goes on to the pre-main prompt
PracticeQuit ==
    /\ pc = "practice"
    /\ key' = KEY_QUIT
    /\ pc' = "premain"
    /\ UNCHANGED <<subject_id, idx, trials, trial, practiceBank>>
    /\ UNCHANGED <<trialVars, mainVars, fileVars>>
    /\ UNCHANGED sideVars

PracticeBank ==
    /\ pc = "practice"
    /\ key' = KEY_NEXT
    /\ practiceBank' = practiceBank + tempBank
    /\ tempBank' = 0
    /\ continuePumping' = FALSE
    /\ cue' = "collect"
    /\ pc' = "practice_end"
    /\ UNCHANGED <<subject_id, idx, trials, trial, nPumps, pop,
                   earned_this, potential_this, E, last_safe>>
    /\ UNCHANGED <<mainVars, fileVars>>
    /\ UNCHANGED sideVars

\* the comparison turned round: random.random() > burst_p
BurstsAbove(r, maxPumps, n) == r * (maxPumps - n) > Grain

\* random.random() < 1.0 / (maxPumps - n), with random.random() = r / Grain
Bursts(r, maxPumps, n) == r * (maxPumps - n) < Grain

PracticePump ==
    /\ pc = "practice"
    /\ key' = KEY_PUMP
    /\ nPumps' = nPumps + 1
    /\ IF nPumps + 1 >= MAX_PUMPS[trial]
          THEN /\ tempBank' = 0
               /\ pop' = TRUE
          ELSE \E r \in 0 .. Grain - 1 :
                  IF Bursts(r, MAX_PUMPS[trial], nPumps + 1)
                     THEN /\ tempBank' = 0
                          /\ pop' = TRUE
                     ELSE /\ tempBank' = tempBank + REWARD
                          /\ pop' = FALSE
    /\ cue' = IF pop' THEN "pop" ELSE cue
    /\ pc' = IF pop' THEN "practice_end" ELSE "practice"
    /\ UNCHANGED <<subject_id, idx, trials, trial, continuePumping,
                   earned_this, potential_this, E, last_safe, practiceBank>>
    /\ UNCHANGED <<mainVars, fileVars>>
    /\ UNCHANGED sideVars

\* the practice for loop goes to its next trial, or run_practice returns
PracticeNext ==
    /\ pc = "practice_end"
    /\ IF idx < NColors
          THEN StartPracticeTrial(idx + 1)
          ELSE /\ pc' = "premain"
               /\ UNCHANGED <<idx, trial, tempBank, nPumps, pop, continuePumping,
                              cue>>
    /\ UNCHANGED <<subject_id, trials, key, earned_this, potential_this, E,
                   last_safe, practiceBank>>
    /\ UNCHANGED <<mainVars, fileVars>>
    /\ UNCHANGED sideVars

\* ------------------------------------------------------------- pre-main

PreMainQuit ==
    /\ pc = "premain"
    /\ pc' = "quit"
    /\ UNCHANGED <<subject_id, idx, trials, trial, key, practiceBank>>
    /\ UNCHANGED <<trialVars, mainVars, fileVars>>
    /\ UNCHANGED sideVars

\* the main phase taking over what run_practice returned
BeginMainKeepsPractice ==
    /\ pc = "premain"
    /\ overall' = ZeroStats
    /\ block' = ZeroStats
    /\ permBank' = practiceBank
    /\ practiceBank' = 0
    /\ \E list \in TrialOrders : StartMainTrial(1, list)
    /\ key' = NoKey
    /\ UNCHANGED subject_id
    /\ UNCHANGED fileVars
    /\ UNCHANGED sideVars

\* SPACE at the prompt: create_trials, the accumulators, permBank, and the
\* first iteration of the main loop up to its waitKeys
BeginMain ==
    /\ pc = "premain"
    /\ overall' = ZeroStats
    /\ block' = ZeroStats
    /\ permBank' = 0
    /\ practiceBank' = 0
    /\ \E list \in TrialOrders : StartMainTrial(1, list)
    /\ key' = NoKey
    /\ UNCHANGED subject_id
    /\ UNCHANGED fileVars
    /\ UNCHANGED sideVars

\* ----------------------------------------------------------------- main

\* mutant of MainTimeout: the unbanked money is banked on a timeout
MainTimeoutBanks ==
    /\ pc = "main"
    /\ key' = NoKey
    /\ continuePumping' = FALSE
    /\ earned_this' = 0
    /\ potential_this' = 0
    /\ permBank' = permBank + tempBank
    /\ pc' = "save"
    /\ UNCHANGED <<subject_id, idx, trials, trial, tempBank, nPumps, pop, E,
                   last_safe, cue, practiceBank>>
    /\ UNCHANGED <<block, overall, fileVars>>
    /\ UNCHANGED sideVars

\* no key within maxWait: the trial ends with nothing earned or recorded
MainTimeout ==
    /\ pc = "main"
    /\ key' = NoKey
    /\ continuePumping' = FALSE
    /\ earned_this' = 0
    /\ potential_this' = 0
    /\ pc' = "save"
    /\ UNCHANGED <<subject_id, idx, trials, trial, tempBank, nPumps, pop, E,
                   last_safe, cue, practiceBank>>
    /\ UNCHANGED <<mainVars, fileVars>>
    /\ UNCHANGED sideVars

\* mutant of MainQuit: escape only leaves the while loop
MainQuitBreaks ==
    /\ pc = "main"
    /\ key' = KEY_QUIT
    /\ continuePumping' = FALSE
    /\ pc' = "save"
    /\ UNCHANGED <<subject_id, idx, trials, trial, tempBank, nPumps, pop,
                   earned_this, potential_this, E, last_safe, cue,
                   practiceBank>>
    /\ UNCHANGED <<mainVars, fileVars>>
    /\ UNCHANGED sideVars

\* escape: win.close(); core.quit(); return
MainQuit ==
    /\ pc = "main"
    /\ key' = KEY_QUIT
    /\ pc' = "quit"
    /\ UNCHANGED <<subject_id, idx, trials, trial, practiceBank>>
    /\ UNCHANGED <<trialVars, mainVars, fileVars>>
    /\ UNCHANGED sideVars

MainBank ==
    /\ pc = "main"
    /\ key' = KEY_NEXT
    /\ earned_this' = tempBank
    /\ cue' = "collect"
    /\ permBank' = NewTotal(permBank, earned_this')
    /\ tempBank' = 0
    /\ continuePumping' = FALSE
    /\ potential_this' = last_safe * REWARD
    /\ block' = RecordBanked(block, nPumps, earned_this', potential_this')
    /\ overall' = RecordBanked(overall, nPumps, earned_this', potential_this')
    /\ pc' = "save"
    /\ UNCHANGED <<subject_id, idx, trials, trial, nPumps, pop, E, last_safe,
                   practiceBank>>
    /\ UNCHANGED fileVars
    /\ UNCHANGED sideVars

\* mutant of Explodes: the balloon bursts one pump late
ExplodesLate(n, e) == n > e

\* nPumps >= E after the increment
Explodes(n, e) == n >= e

MainPump ==
    /\ pc = "main"
    /\ key' = KEY_PUMP
    /\ nPumps' = nPumps + 1
    /\ IF Explodes(nPumps + 1, E)
          THEN /\ potential_this' = last_safe * REWARD
               /\ cue' = "pop"
               /\ tempBank' = 0
               /\ pop' = TRUE
               /\ earned_this' = 0
               /\ block' = RecordExploded(block, potential_this')
               /\ overall' = RecordExploded(overall, potential_this')
               /\ pc' = "save"
          ELSE /\ tempBank' = tempBank + REWARD
               /\ pc' = "main"
               /\ UNCHANGED <<pop, earned_this, potential_this, cue, block,
                              overall>>
    /\ UNCHANGED <<subject_id, idx, trials, trial, continuePumping, E,
                   last_safe, permBank, practiceBank>>
    /\ UNCHANGED fileVars
    /\ UNCHANGED sideVars

\* the trial row numbered as enumerate without start=1 would number it
TrialRowFromZero ==
    [participant_id |-> subject_id, trial_number |-> idx - 1,
     color |-> COLOR_LIST[trial], max_pumps |-> MAX_PUMPS[trial],
     pumps_made |-> nPumps, exploded |-> IF pop THEN 1 ELSE 0,
     earned_this |-> earned_this, banked_total_after |-> permBank,
     potential_this |-> potential_this,
     missed_this |-> potential_this - earned_this]

\* the row appended to trials.csv
TrialRow ==
    [participant_id |-> subject_id, trial_number |-> idx,
     color |-> COLOR_LIST[trial], max_pumps |-> MAX_PUMPS[trial],
     pumps_made |-> nPumps, exploded |-> IF pop THEN 1 ELSE 0,
     earned_this |-> earned_this, banked_total_after |-> permBank,
     potential_this |-> potential_this,
     missed_this |-> potential_this - earned_this]

\* overall['total_balloons'] in (20, 40)
AtBlockMark(stats) == stats.total_balloons \in BlockMarks

\* the loop body right after the while loop: the trial row is appended, and
\* the test for a block mark follows
SaveTrial ==
    /\ pc = "save"
    /\ nTrialRows' = nTrialRows + 1
    /\ trialRow' = TrialRow
    /\ missedInBlock' = missedInBlock + TrialRow.missed_this
    /\ missedInAll' = missedInAll + TrialRow.missed_this
    /\ pc' = IF AtBlockMark(overall) THEN "summary" ELSE "next"
    /\ UNCHANGED <<subject_id, idx, trials, trial, key, permBank,
                   practiceBank, block, overall, blockScopes, blockRow,
                   emitted>>
    /\ UNCHANGED trialVars
    /\ UNCHANGED sideVars

\* at a block mark show_summary is called with the block accumulator: its row
\* is appended to blocks.csv and the summary stays on the screen
BlockSummary ==
    /\ pc = "summary"
    /\ ShowSummary(block,
          BlockScope(overall.total_balloons - (Block - 1),
                     overall.total_balloons))
    /\ emitted' = AddStats(emitted, block)
    /\ pc' = "shown"
    /\ UNCHANGED <<subject_id, idx, trials, trial, key, permBank,
                   practiceBank, block, overall, nTrialRows, trialRow,
                   missedInBlock, missedInAll>>
    /\ UNCHANGED trialVars
    /\ UNCHANGED sideVars

\* the reset applied to both accumulators
DismissSummaryResetsBoth ==
    /\ pc = "shown"
    /\ block' = ZeroStats
    /\ overall' = ZeroStats
    /\ pc' = "next"
    /\ missedInBlock' = 0
    /\ UNCHANGED <<subject_id, idx, trials, trial, key, permBank,
                   practiceBank>>
    /\ UNCHANGED trialVars
    /\ UNCHANGED <<nTrialRows, trialRow, blockScopes, blockRow, emitted,
                   missedInAll>>
    /\ UNCHANGED sideVars

\* a key ends the summary screen, show_summary returns and the block
\* accumulator is reset
DismissSummary ==
    /\ pc = "shown"
    /\ block' = ZeroStats
    /\ missedInBlock' = 0
    /\ pc' = "next"
    /\ UNCHANGED <<subject_id, idx, trials, trial, key, permBank,
                   practiceBank, overall>>
    /\ UNCHANGED trialVars
    /\ UNCHANGED <<nTrialRows, trialRow, blockScopes, blockRow, emitted,
                   missedInAll>>
    /\ UNCHANGED sideVars

\* the for loop goes to its next trial
NextTrial ==
    /\ pc = "next"
    /\ idx < NTrials
    /\ StartMainTrial(idx + 1, trials)
    /\ trialRow' = NoRow
    /\ blockRow' = NoRow
    /\ UNCHANGED <<subject_id, key, permBank, practiceBank, block,
                   overall, nTrialRows, blockScopes, emitted, missedInBlock,
                   missedInAll>>
    /\ UNCHANGED sideVars

\* the for loop is exhausted: the final summary
FinalSummary ==
    /\ pc = "next"
    /\ idx = NTrials
    /\ ShowSummary(overall, FinalScope)
    /\ pc' = "done"
    /\ UNCHANGED <<subject_id, idx, trials, trial, key, permBank,
                   practiceBank, block, overall, nTrialRows, trialRow,
                   emitted, missedInBlock, missedInAll>>
    /\ UNCHANGED trialVars
    /\ UNCHANGED sideVars

Next ==
    \/ PracticeTimeout
    \/ PracticeQuit
    \/ PracticeBank
    \/ PracticePump
    \/ PracticeNext
    \/ PreMainQuit
    \/ BeginMain
    \/ MainTimeout
    \/ MainQuit
    \/ MainBank
    \/ MainPump
    \/ SaveTrial
    \/ BlockSummary
    \/ DismissSummary
    \/ NextTrial
    \/ FinalSummary

Spec == Init /\ [][Next]_vars

\* ------------------------------------------------------- failing writes
\* A session in which csv_append may fail (open or write raises OSError:
\* the file is locked by another program, the disk is full).  No caller of
\* csv_append catches the exception, so it leaves bart() and the process
\* ends: pc = "crashed".

\* csv_append for the trial row raises
SaveTrialFails ==
    /\ pc = "save"
    /\ pc' = "crashed"
    /\ UNCHANGED <<subject_id, idx, trials, trial, key, practiceBank>>
    /\ UNCHANGED <<trialVars, mainVars, fileVars>>
    /\ UNCHANGED sideVars

\* csv_append inside show_summary raises, for a block or the final summary
SummaryFails ==
    /\ \/ pc = "summary"
       \/ pc = "next" /\ idx = NTrials
    /\ subject_id # ""
    /\ pc' = "crashed"
    /\ UNCHANGED <<subject_id, idx, trials, trial, key, practiceBank>>
    /\ UNCHANGED <<trialVars, mainVars, fileVars>>
    /\ UNCHANGED sideVars

FaultyNext ==
    \/ Next
    \/ SaveTrialFails
    \/ SummaryFails

SpecFaulty == Init /\ [][FaultyNext]_vars

\* ------------------------------------------------ threshold derivation
\* sample_explosion_threshold in two processes side by side.  Python salts
\* the hash of a str with a value chosen when the process starts (unless
\* PYTHONHASHSEED fixes it); random.Random(seed) is a generator of its own,
\* apart from the module-level one that random.seed and random.random use.

Salts == 0 .. MaxSalt
TrialIdxs == 1 .. MaxTrialIdx
\* the max_pumps arguments: the smallest legal one and those of the colours
PumpLimits == {1} \cup {MAX_PUMPS[i] : i \in 1 .. NColors}

\* the text of a participant id as a number
IdCode(id) == IF id = "7" THEN 55 ELSE 0

\* hash(f"{subject_id}-{trial_idx}") in a process with the given salt.  The
\* hash function of CPython is not reproduced: StrHash is a fixed function of
\* the salt and of the text, onto a signed 16-bit range.
StrHash(salt, id, n) ==
    (((salt * 1000003 + IdCode(id)) * 31 + n) % 65536) - 32768

\* h & 0xffffffff, on the 16-bit range of StrHash
LowBits(h) == h % 65536

\* random.Random(seed).randint(a, b).  The Mersenne Twister is not
\* reproduced: RandInt is a fixed function of the seed onto a .. b.
RandInt(seed, a, b) == a + (seed % (b - a + 1))

\* the threshold drawn as randint(0, max_pumps) would draw it
sample_from_zero(max_pumps, salt, id, trial_idx) ==
    RandInt(CF_MASTER_SEED + LowBits(StrHash(salt, id, trial_idx)),
            0, max_pumps)

\* sample_explosion_threshold(max_pumps, subject_id, trial_idx) in a process
\* with the given salt
sample_explosion_threshold(max_pumps, salt, id, trial_idx) ==
    RandInt(CF_MASTER_SEED + LowBits(StrHash(salt, id, trial_idx)),
            1, max_pumps)

ThresholdInit ==
    /\ SessionInit
    /\ hashSalt \in [Sessions -> Salts]
    /\ globalRandom = [s \in Sessions |-> FreshRandom]
    /\ derived = [s \in Sessions |-> NoCall]
    /\ csvFile = AbsentFile

\* random.random() in a practice pump: the module-level generator advances
HazardDraw(s) ==
    /\ globalRandom[s].drawn < MaxDraws
    /\ globalRandom' =
          [globalRandom EXCEPT ![s].drawn = globalRandom[s].drawn + 1]
    /\ UNCHANGED <<hashSalt, derived, csvFile>>
    /\ UNCHANGED sessionVars

\* random.seed(52472) in create_trials: the module-level generator restarts
SeedOrdering(s) ==
    /\ globalRandom' =
          [globalRandom EXCEPT ![s] = [seed |-> OrderSeed, drawn |-> 0]]
    /\ UNCHANGED <<hashSalt, derived, csvFile>>
    /\ UNCHANGED sessionVars

\* E = sample_explosion_threshold(trial['maxPumps'], subject_id, idx)
Derive(s, max_pumps, n) ==
    /\ derived' =
          [derived EXCEPT ![s] =
              [max_pumps |-> max_pumps, trial_idx |-> n,
               E |-> sample_explosion_threshold(max_pumps, hashSalt[s],
                                                subject_id, n)]]
    /\ UNCHANGED <<hashSalt, globalRandom, csvFile>>
    /\ UNCHANGED sessionVars

ThresholdNext ==
    \E s \in Sessions :
        \/ HazardDraw(s)
        \/ SeedOrdering(s)
        \/ \E max_pumps \in PumpLimits, n \in TrialIdxs :
               Derive(s, max_pumps, n)

SpecThreshold == ThresholdInit /\ [][ThresholdNext]_vars

\* ----------------------------------------------------------- csv_append
\* csv_append(path, header, row) on one path.  A row is a number: 0 is the
\* header row of the file, 1 .. RowValues are the data rows a caller passes.

Header == 0
Rows == 1 .. RowValues

\* csv_append with the file opened in mode 'w'
csv_rewrite(file, header, row) ==
    [exists |-> TRUE,
     rows |-> (IF ~file.exists THEN <<header>> ELSE <<>>) \o <<row>>]

\* write_header = not os.path.exists(path); open(path, 'a') creates the file
\* if need be and writes at its end; the header if write_header; the row
csv_append(file, header, row) ==
    [exists |-> TRUE,
     rows |-> file.rows \o (IF ~file.exists THEN <<header>> ELSE <<>>)
                        \o <<row>>]

\* the file before the writes: absent, or left by earlier calls of csv_append
EarlierFiles ==
    {AbsentFile} \cup
    {csv_append(AbsentFile, Header, row) : row \in Rows}

CsvInit ==
    /\ SessionInit
    /\ ThresholdIdle
    /\ csvFile \in EarlierFiles

CsvAppend(row) ==
    /\ Len(csvFile.rows) <= MaxCsvRows
    /\ csvFile' = csv_append(csvFile, Header, row)
    /\ UNCHANGED thresholdVars
    /\ UNCHANGED sessionVars

CsvNext == \E row \in Rows : CsvAppend(row)

SpecCsv == CsvInit /\ [][CsvNext]_vars

\* ================================================================ claims

\* where a main trial stands
Ended == pc \in {"save", "summary", "shown", "next"}
Banked == Ended /\ key = KEY_NEXT
Exploded == Ended /\ key = KEY_PUMP
Abandoned == Ended /\ key = NoKey
\* the main loop has been entered (E is 0 until then)
InMainPhase ==
    \/ pc \in {"main", "save", "summary", "shown", "next", "done", "crashed"}
    \/ pc = "quit" /\ E # 0

\* the first main trial, before any input
AtMainStart == pc = "main" /\ idx = 1 /\ nPumps = 0

\* the number of rows of seq equal to x
Count(seq, x) == Cardinality({i \in DOMAIN seq : seq[i] = x})

\* ----------------------------------------------------------------- C1
C1_PumpStep ==
    (pc = "main" /\ nPumps' = nPumps + 1) =>
        /\ E' = E
        /\ IF nPumps' < E
              THEN /\ pc' = "main"
                   /\ continuePumping'
                   /\ ~pop'
                   /\ tempBank' = tempBank + REWARD
              ELSE /\ nPumps' = E
                   /\ pc' = "save"
                   /\ pop'
                   /\ earned_this' = 0
                   /\ permBank' = permBank

\* C1: in a main trial with threshold E, a pump that brings nPumps to k < E
\* leaves the trial pumping and adds REWARD to tempBank; the pump that brings
\* nPumps to E ends the trial exploded (pop, earned_this = 0, permBank
\* unchanged); no pump explodes below E.
C1_PumpToThreshold == [][C1_PumpStep]_vars

\* a trial that exploded at E after at least one safe pump
C1_Witness == Exploded /\ pop /\ nPumps = E /\ E >= 2 /\ earned_this = 0

\* ----------------------------------------------------------------- C2
C2_BankStep ==
    (pc = "main" /\ key' = KEY_NEXT) =>
        /\ nPumps' = nPumps
        /\ nPumps >= 0
        /\ nPumps < E
        /\ earned_this' = nPumps * REWARD
        /\ ~pop'
        /\ permBank' = permBank + earned_this'
        /\ pc' = "save"
        /\ ~continuePumping'

\* C2: a main trial banked after k pumps, 0 <= k < E, has
\* earned_this = k * REWARD and pop = FALSE, permBank grows by exactly
\* earned_this, and the trial ends as Banked.
C2_BankBeforeThreshold == [][C2_BankStep]_vars

\* a trial banked after a pump, on top of money banked earlier
C2_Witness ==
    Banked /\ nPumps >= 1 /\ earned_this = nPumps * REWARD /\ permBank > earned_this

\* ----------------------------------------------------------------- C3
C3_PotentialStep ==
    /\ (pc = "main" /\ pc' \in {"main", "save"}) =>
            (E' = E /\ last_safe' = last_safe)
    /\ (pc' \in {"save", "next"} /\ key' \in {KEY_NEXT, KEY_PUMP}) =>
            potential_this' = (E' - 1) * REWARD

\* C3: every main trial that ends Exploded or Banked has
\* potential_this = (E - 1) * REWARD for the threshold E drawn at the start of
\* the trial, which stays fixed throughout the trial, whatever the number of
\* pumps and whichever of the two outcomes.
C3_CounterfactualPotential == [][C3_PotentialStep]_vars

\* a trial banked before its last safe pump: the potential exceeds the earnings
C3_Witness ==
    Banked /\ E >= 2 /\ nPumps < E - 1 /\ potential_this = (E - 1) * REWARD

\* ----------------------------------------------------------------- C4
C4_TimeoutStep ==
    /\ (pc = "main" /\ key' = NoKey) =>
          /\ pc' = "save"
          /\ ~continuePumping'
          /\ earned_this' = 0
          /\ potential_this' = 0
          /\ permBank' = permBank
          /\ ~pop'
          /\ cue' = NoCue
    /\ Abandoned =>
          /\ permBank' = permBank
          /\ ~pop'
          /\ cue' = NoCue
          /\ pc = "save" => pc' \in {"summary", "next"}
          /\ pc = "summary" => pc' = "shown"
          /\ pc = "shown" => pc' = "next"
          /\ (pc = "next" /\ idx < NTrials) => (pc' = "main" /\ idx' = idx + 1)
          /\ (pc = "next" /\ idx = NTrials) => pc' = "done"

\* C4: a main trial with no input within the wait window ends Abandoned
\* with earned_this = 0 and potential_this = 0, tempBank is not added to
\* permBank, no pop cue is played and pop stays FALSE, and the loop goes on to
\* the next trial.
C4_TimeoutAbandons == [][C4_TimeoutStep]_vars

\* a trial abandoned with unbanked money, with trials still to come
C4_Witness == Abandoned /\ pc = "next" /\ tempBank > 0 /\ idx < NTrials

\* ----------------------------------------------------------------- C5
Recorded(old, new, pumps, burst) ==
    /\ new.total_balloons = old.total_balloons + 1
    /\ IF burst
          THEN /\ new.exploded = old.exploded + 1
               /\ new.unexploded = old.unexploded
               /\ new.total_pumps_unexploded = old.total_pumps_unexploded
          ELSE /\ new.unexploded = old.unexploded + 1
               /\ new.exploded = old.exploded
               /\ new.total_pumps_unexploded = old.total_pumps_unexploded + pumps

\* C5: every main trial that ends Banked, Exploded or Abandoned is recorded:
\* total_balloons grows by 1 and exactly one of unexploded/exploded grows by
\* 1, in the block and in the overall accumulator, and nPumps is added to
\* total_pumps_unexploded only when the trial is unexploded.
C5_EveryOutcomeRecorded ==
    [][(pc = "main" /\ pc' = "save") =>
          /\ Recorded(overall, overall', nPumps', pop')
          /\ Recorded(block, block', nPumps', pop')]_vars

\* ----------------------------------------------------------------- C6
Conserved(stats) == stats.total_balloons = stats.unexploded + stats.exploded

\* C6: after any sequence of banks, explosions and timeouts,
\* total_balloons = unexploded + exploded in the overall and in the block
\* accumulator, also right after a block reset.
C6_Conservation == Conserved(overall) /\ Conserved(block)

\* right after a block reset, with a bank, an explosion and a timeout behind
C6_Witness ==
    /\ pc = "next"
    /\ blockRow # NoRow
    /\ block = ZeroStats
    /\ overall.unexploded >= 1
    /\ overall.exploded >= 1
    /\ idx > overall.total_balloons

\* ----------------------------------------------------------------- C7
\* C7: exactly one summary with scope block_1_20 is emitted, once 20
\* balloons are complete, and exactly one with scope block_21_40, once 40
\* are; the block accumulator is all zeros right after each; no block summary
\* is emitted at any other point, whatever the mix of outcomes.
C7_OneSummaryPerBlock ==
    /\ \A i, j \in DOMAIN blockScopes :
          blockScopes[i] = blockScopes[j] => i = j
    /\ (InMainPhase /\ pc \notin {"save", "summary"}) =>
          \A m \in BlockMarks :
             Count(blockScopes, BlockScope(m - (Block - 1), m)) =
                IF overall.total_balloons >= m THEN 1 ELSE 0
    /\ (pc = "next" /\ blockRow # NoRow) => block = ZeroStats

\* ----------------------------------------------------------------- C8
\* C8: a session that runs through all main trials writes exactly one
\* final summary row, after the last trial row, and it covers all trials:
\* its total_balloons is the number of trials and its other fields are the
\* overall totals.
C8_FinalCoversAllTrials ==
    pc = "done" =>
        /\ nTrialRows = NTrials
        /\ Count(blockScopes, FinalScope) = 1
        /\ blockScopes[Len(blockScopes)] = FinalScope
        /\ blockRow = BlockRow(subject_id, FinalScope, overall)
        /\ blockRow.total_balloons = NTrials

\* ----------------------------------------------------------------- C9
C9_QuitStep ==
    /\ (pc = "main" /\ key' = KEY_QUIT) =>
          /\ pc' = "quit"
          /\ nTrialRows' = idx - 1
          /\ trialRow' = NoRow
          /\ blockRow' = NoRow
          /\ UNCHANGED <<idx, permBank, block, overall, nTrialRows, trialRow,
                         blockScopes, blockRow>>
    /\ pc = "quit" => UNCHANGED vars

\* C9: escape while a main trial is pumping ends the session at once: no
\* trial row is written for the trial in progress, no later trial starts, no
\* block or final summary row is written afterwards, and permBank and the
\* accumulators are not updated for that trial.
C9_MainQuitAborts == [][C9_QuitStep]_vars

\* escape in a later trial, with unbanked money and rows already written
C9_Witness ==
    /\ pc = "quit"
    /\ InMainPhase
    /\ key = KEY_QUIT
    /\ tempBank > 0
    /\ nTrialRows >= 1
    /\ nTrialRows = idx - 1
    /\ idx < NTrials

\* ---------------------------------------------------------------- C10
\* C10: escape while a practice trial is pumping ends the whole session: no
\* further practice trial and no main trial starts, and no row is written.
C10_PracticeQuitAborts ==
    [][(pc = "practice" /\ key' = KEY_QUIT) => pc' = "quit"]_vars

\* ---------------------------------------------------------------- C11
C11_RecordStep ==
    /\ nTrialRows' # nTrialRows =>
          /\ Ended
          /\ nTrialRows' = nTrialRows + 1
          /\ trialRow'.trial_number = nTrialRows'
          /\ trialRow'.trial_number = idx
          /\ trialRow'.exploded = (IF Exploded THEN 1 ELSE 0)
          /\ trialRow'.banked_total_after = permBank
          /\ permBank' = permBank
          /\ blockScopes' = blockScopes
    /\ (InMainPhase /\ blockScopes' # blockScopes /\ pc' # "done") =>
          (nTrialRows = idx /\ trialRow.trial_number = idx)
    /\ (InMainPhase /\ idx' # idx) =>
          (nTrialRows = idx /\ idx' = idx + 1)
    /\ (InMainPhase' /\ pc' \in {"main", "save"}) => nTrialRows' = idx' - 1
    /\ pc' \in {"summary", "shown", "next", "done"} => nTrialRows' = idx'

\* C11: every main trial that ends Banked, Exploded or Abandoned gets
\* exactly one row in trials.csv, appended before the next trial starts and
\* before the block summary that the trial triggers; the rows are numbered
\* 1, 2, 3, ... without gap or repeat, the exploded column is 1 exactly when
\* the trial ended Exploded, and banked_total_after is permBank after the
\* trial.
C11_OneRowPerTrial == [][C11_RecordStep]_vars

\* the row of an exploded trial at a block mark, written with money banked
\* earlier and with the block summary still to come
C11_Witness ==
    /\ pc = "summary"
    /\ Exploded
    /\ trialRow.trial_number = idx
    /\ trialRow.exploded = 1
    /\ trialRow.banked_total_after = permBank
    /\ permBank > 0
    /\ blockScopes = <<>>

\* ---------------------------------------------------------------- C12
SameCall(a, b) ==
    /\ a # NoCall
    /\ a.max_pumps = b.max_pumps
    /\ a.trial_idx = b.trial_idx

\* C12: for a fixed master seed, participant id, trial index and max_pumps
\* the derivation returns the same E whenever it is invoked, in one process
\* and in another process alike.
C12_SameInEveryProcess ==
    \A s, t \in Sessions :
        SameCall(derived[s], derived[t]) => derived[s].E = derived[t].E

\* ---------------------------------------------------------------- C13
\* C13: for every participant id, trial index and max_pumps >= 1 the derived
\* E is an integer with 1 <= E <= max_pumps, so that last_safe = E - 1 lies
\* in 0 .. max_pumps - 1.
C13_ThresholdInRange ==
    \A s \in Sessions :
        derived[s] # NoCall =>
            /\ derived[s].E \in 1 .. derived[s].max_pumps
            /\ LastSafe(derived[s].E) \in 0 .. derived[s].max_pumps - 1

\* a threshold for max_pumps = 1 in one process, one above 1 in the other
C13_Witness ==
    /\ derived[1].max_pumps = 1
    /\ derived[1].E = 1
    /\ derived[2].max_pumps > 1
    /\ derived[2].E > 1
    /\ LastSafe(derived[2].E) >= 1

\* ---------------------------------------------------------------- C19
C19_DeriveStep ==
    derived' # derived =>
        /\ globalRandom' = globalRandom
        /\ \A s, t \in Sessions :
              (/\ globalRandom[s] # globalRandom[t]
               /\ SameCall(derived'[s], derived'[t]))
                  => derived'[s].E = derived'[t].E

\* C19: E does not depend on randomness consumed elsewhere: two sessions of
\* one participant that differ in what they drew from the module-level
\* generator (hazard draws of the practice, the seeding for the trial order)
\* give the same E to the same trial index and max_pumps, and deriving a
\* threshold neither advances nor reseeds that generator.
C19_IndependentOfOtherDraws == [][C19_DeriveStep]_vars

\* ---------------------------------------------------------------- C14
C14_BankedStep ==
    /\ permBank' >= permBank
    /\ permBank' # permBank => (pc = "main" /\ key' = KEY_NEXT)
    /\ (pc = "main" /\ pc' = "save") =>
          overall'.earned = overall.earned + earned_this'
    /\ InMainPhase' => overall'.earned = permBank'

\* C14: permBank never decreases and changes only on a bank input; at the
\* end of every trial overall.earned has grown by the trial's earned_this,
\* so that it is the sum of earned_this over the trials so far, and it
\* equals permBank.
C14_BankedTotal == [][C14_BankedStep]_vars

\* two banked trials behind, then an exploded one: the total is kept
C14_Witness ==
    /\ pc = "next"
    /\ Exploded
    /\ overall.unexploded >= 2
    /\ permBank >= 2 * REWARD
    /\ overall.earned = permBank

\* ---------------------------------------------------------------- C15
C15_WriteStep ==
    csvFile' # csvFile =>
        /\ \E row \in Rows :
              csvFile'.rows =
                 (IF csvFile.exists THEN csvFile.rows ELSE <<Header>>)
                    \o <<row>>
        /\ Count(csvFile'.rows, Header) = 1
        /\ csvFile'.rows[1] = Header

\* C15: in any sequence of csv_append calls on one file the header is
\* written exactly once, by the call that finds the file absent, and every
\* call appends exactly one data row after all the rows already there,
\* which stay as they are.
C15_HeaderOnceRowsAppended == [][C15_WriteStep]_vars

\* a file created by a call, with a header and three rows after it
C15_Witness ==
    /\ csvFile.exists
    /\ Len(csvFile.rows) = 4
    /\ csvFile.rows[1] = Header
    /\ csvFile.rows[2] # csvFile.rows[3]
    /\ csvFile.rows[4] \in Rows

\* ---------------------------------------------------------------- C16
C16_FailedWriteStep ==
    /\ (pc = "save" /\ nTrialRows' = nTrialRows) =>
          /\ pc' \in {"summary", "next"}
          /\ UNCHANGED <<mainVars, blockScopes>>
    /\ (pc = "summary" /\ blockScopes' = blockScopes) =>
          /\ pc' = "shown"
          /\ UNCHANGED <<mainVars, nTrialRows>>
    /\ (pc = "next" /\ idx = NTrials /\ blockScopes' = blockScopes) =>
          /\ pc' = "done"
          /\ UNCHANGED <<mainVars, nTrialRows>>

\* C16: when the write of a trial row or of a summary row fails, only that
\* row is lost: permBank and the accumulators keep their values, the rows
\* written before stay, and the session goes on with what follows the write
\* (the block-mark test, the summary screen, the next trial, the end).
C16_WriteFailureLosesOneRow == [][C16_FailedWriteStep]_vars

\* ---------------------------------------------------------------- C17
InPractice == pc \in {"practice", "practice_end"}

C17_PracticePumpStep ==
    /\ (pc = "practice" /\ key' = KEY_PUMP) =>
          /\ nPumps' = nPumps + 1
          /\ nPumps' <= MAX_PUMPS[trial]
          /\ IF pop'
                THEN /\ tempBank' = 0
                     /\ pc' = "practice_end"
                ELSE /\ tempBank' = tempBank + REWARD
                     /\ pc' = "practice"
          /\ MAX_PUMPS[trial] - nPumps' = 1 => pop'
          /\ nPumps' = MAX_PUMPS[trial] => pop'
          /\ UNCHANGED <<practiceBank, permBank, E, last_safe, derived>>
    /\ InPractice' =>
          /\ nPumps' <= MAX_PUMPS[trial']
          /\ E' = 0
          /\ last_safe' = 0

\* C17: in the practice a pump that brings the count to n < maxPumps
\* explodes with hazard 1 / (maxPumps - n) (so for certain when the hazard
\* is 1, and otherwise possibly not) and adds REWARD to tempBank if it does
\* not; a pump that brings the count to maxPumps explodes for certain; no
\* practice trial has more than maxPumps pumps, an explosion sets tempBank
\* to 0 and leaves the banked total alone, and no threshold E is drawn.
C17_PracticeHazard == [][C17_PracticePumpStep]_vars

\* a practice balloon that held for two pumps and burst at the third, when
\* the hazard was still below 1, with money banked on an earlier balloon
C17_Witness ==
    /\ pc = "practice_end"
    /\ pop
    /\ nPumps = 3
    /\ nPumps < MAX_PUMPS[trial] - 1
    /\ tempBank = 0
    /\ practiceBank > 0
    /\ E = 0

\* ---------------------------------------------------------------- C18
\* C18: the main trial list has NColors * REPETITIONS trials (60 in the
\* program), every colour REPETITIONS times (20), each with the max_pumps of
\* its colour; the practice list is one trial per colour in the order red,
\* green, blue.  The list is the first trial and those still to come when
\* the main loop starts, and the loop takes them one by one.
C18_TrialLists ==
    /\ InMainPhase =>
          /\ idx \in 1 .. NColors * REPETITIONS
          /\ idx + Len(trials) = NColors * REPETITIONS
    /\ AtMainStart =>
          \A c \in 1 .. NColors :
             Count(<<trial>> \o trials, c) = REPETITIONS
    /\ (InMainPhase /\ trialRow # NoRow) =>
          /\ trialRow.color = COLOR_LIST[trial]
          /\ trialRow.max_pumps = MAX_PUMPS[trial]
    /\ InPractice =>
          /\ idx \in 1 .. NColors
          /\ COLOR_LIST[trial] = <<"red", "green", "blue">>[idx]
          /\ trials = <<>>

\* the whole list run through, the row of its last trial written
C18_Witness ==
    /\ pc = "next"
    /\ idx = NTrials
    /\ trials = <<>>
    /\ trialRow.trial_number = NTrials
    /\ trialRow.max_pumps = MAX_PUMPS[trial]

\* ---------------------------------------------------------------- C20
\* C20 as stated: at every point of the main phase every field of overall
\* is the sum of that field over the block summaries shown so far plus its
\* value in the block accumulator.
C20_OverallIsSumEverywhere ==
    InMainPhase => overall = AddStats(emitted, block)

\* C20: the block and the overall accumulator take the same updates and
\* only block is reset, so that every field of overall is the sum of that
\* field over the block summaries shown so far plus its value in the block
\* accumulator, at every point of the main phase except while a block
\* summary is on the screen (its values are shown and written, the block
\* accumulator is reset only when the screen is left).
C20_OverallIsSumOfBlocks ==
    (InMainPhase /\ pc # "shown") => overall = AddStats(emitted, block)

\* a trial recorded after the first block summary
C20_Witness ==
    /\ pc = "save"
    /\ emitted.total_balloons = Block
    /\ emitted.earned > 0
    /\ block.total_balloons >= 1
    /\ block.potential > 0
    /\ overall = AddStats(emitted, block)

\* ---------------------------------------------------------------- C21
\* C21: while a main trial is pumping, tempBank = nPumps * REWARD and
\* nPumps < E <= max_pumps of the trial; so a trial takes at most E pumps,
\* and the pumps_made of every trial row is at most E, and equal to E
\* exactly when the row's exploded is 1.
C21_PumpingBelowThreshold ==
    /\ (InMainPhase /\ pc = "main") =>
          /\ tempBank = nPumps * REWARD
          /\ nPumps < E
          /\ E <= MAX_PUMPS[trial]
    /\ InMainPhase => nPumps <= E
    /\ (InMainPhase /\ trialRow # NoRow) =>
          /\ trialRow.pumps_made <= E
          /\ trialRow.pumps_made = E <=> trialRow.exploded = 1

\* a trial still pumping after a pump, one pump short of its threshold
C21_Witness ==
    /\ pc = "main"
    /\ nPumps >= 1
    /\ nPumps = E - 1
    /\ tempBank = nPumps * REWARD

\* ---------------------------------------------------------------- C22
\* C22: every main trial that ended (Banked, Exploded or Abandoned) has
\* earned_this <= potential_this, so the missed_this of its row is never
\* negative; in a summary potential - earned is never negative either (the
\* max(0, ...) changes nothing), and the summary's missed is the sum of
\* missed_this over the trials it covers: for a block summary the trials
\* since the block accumulator was last reset, for the final one all.
C22_MissedNeverNegative ==
    /\ (InMainPhase /\ Ended) => earned_this <= potential_this
    /\ (InMainPhase /\ trialRow # NoRow) =>
          /\ trialRow.earned_this <= trialRow.potential_this
          /\ trialRow.missed_this >= 0
    /\ block.potential - block.earned >= 0
    /\ overall.potential - overall.earned >= 0
    /\ (InMainPhase /\ blockRow # NoRow) =>
          blockRow.missed = blockRow.potential - blockRow.earned
    /\ pc = "shown" => blockRow.missed = missedInBlock
    /\ pc = "done" => blockRow.missed = missedInAll

\* a block summary on the screen over a banked trial that left money behind
C22_Witness ==
    /\ pc = "shown"
    /\ blockRow.earned > 0
    /\ blockRow.missed > 0
    /\ blockRow.missed = missedInBlock
    /\ blockRow.missed = blockRow.potential - blockRow.earned

\* ---------------------------------------------------------------- C23
NothingWritten ==
    /\ nTrialRows = 0
    /\ trialRow = NoRow
    /\ blockScopes = <<>>
    /\ blockRow = NoRow

\* C23: the practice leaves the state of the main phase alone: whatever
\* happens in it (banks, explosions, timeouts, escape) no trial row and no
\* block row is written before the main phase, and the main phase starts
\* with permBank = 0 and block and overall all zero.
C23_PracticeLeavesMainAlone ==
    /\ ~InMainPhase =>
          /\ NothingWritten
          /\ permBank = 0
          /\ block = ZeroStats
          /\ overall = ZeroStats
    /\ AtMainStart =>
          /\ NothingWritten
          /\ permBank = 0
          /\ block = ZeroStats
          /\ overall = ZeroStats

\* the prompt after a practice with two banks and a last balloon that burst
C23_Witness ==
    /\ pc = "premain"
    /\ practiceBank >= 2 * REWARD
    /\ pop
    /\ permBank = 0
    /\ NothingWritten

====
